---- MODULE Spec2Model ----
\* Geekbot: the document indexing and synchronisation subsystem
\* (src/storage_utils.py and the indexing part of src/app.py).
\*
\* Strings are modelled as sequences of one-character strings, so that
\* str.startswith, f-string concatenation and Path.resolve are computed on the
\* characters as the code computes them.  The modelled file system holds
\* regular files and directories only (no symbolic links, lower-case names),
\* so Path.resolve is the lexical canonicalisation against the working
\* directory.
EXTENDS Integers, Sequences, FiniteSets, TLC

\* ---------------------------------------------------------------- bounds
MaxPages == 2       \* documents a loader returns for one file, at most
MaxCalls == 3       \* calls of the public operations in one behaviour
MaxEdits == 1       \* changes of the file system in one behaviour
MaxLen   == 4       \* length of the chunk lists given to calculate_chunk_ids alone
MaxOverlap == 2     \* calls in one behaviour of two sessions over changing files
MaxBatch == 3       \* batch sizes add_to_chroma is tried with, besides its default
MaxLive  == 2       \* calls in one behaviour of two sessions with failing collaborators

\* ---------------------------------------------------------------- strings
Digits == <<"0", "1", "2", "3", "4", "5", "6", "7", "8", "9">>

RECURSIVE ToStr(_)
\* str(n) of a natural number, in decimal
ToStr(n) == IF n < 10 THEN <<Digits[n + 1]>>
            ELSE ToStr(n \div 10) \o <<Digits[(n % 10) + 1]>>

\* s.startswith(pre)
StartsWith(s, pre) == /\ Len(pre) <= Len(s)
                      /\ SubSeq(s, 1, Len(pre)) = pre

RECURSIVE SplitSlash(_, _, _)
\* the components of a path string: the maximal runs of characters between "/"
SplitSlash(s, cur, acc) ==
    IF s = <<>> THEN (IF cur = <<>> THEN acc ELSE Append(acc, cur))
    ELSE IF Head(s) = "/"
         THEN SplitSlash(Tail(s), <<>>, IF cur = <<>> THEN acc ELSE Append(acc, cur))
         ELSE SplitSlash(Tail(s), Append(cur, Head(s)), acc)

RECURSIVE Collapse(_, _)
\* resolve "." and ".." components against the components already walked
Collapse(segs, acc) ==
    IF segs = <<>> THEN acc
    ELSE IF Head(segs) = <<".">> THEN Collapse(Tail(segs), acc)
    ELSE IF Head(segs) = <<".", ".">>
         THEN Collapse(Tail(segs), IF acc = <<>> THEN acc ELSE SubSeq(acc, 1, Len(acc) - 1))
         ELSE Collapse(Tail(segs), Append(acc, Head(segs)))

RECURSIVE JoinSlash(_)
JoinSlash(segs) == IF segs = <<>> THEN <<>>
                   ELSE <<"/">> \o Head(segs) \o JoinSlash(Tail(segs))

\* the working directory of the process
Cwd == <<"/", "a", "b">>

\* Path(p).expanduser().resolve() as a string
Resolve(p) ==
    LET abs  == IF p # <<>> /\ Head(p) = "/" THEN p ELSE Cwd \o <<"/">> \o p
        segs == Collapse(SplitSlash(abs, <<>>, <<>>), <<>>)
    IN  IF segs = <<>> THEN <<"/">> ELSE JoinSlash(segs)

\* storage_utils.normalize_source_path, for p that is not None
normalize_source_path(p) == Resolve(p)

\* Path(p).name: the last component
PathName(p) == LET segs == SplitSlash(p, <<>>, <<>>)
               IN  IF segs = <<>> THEN <<>> ELSE segs[Len(segs)]

\* Path(p).suffix.lower(): from the last "." of the name, when it is not the
\* first character of the name (names are lower-case already)
PathSuffix(p) ==
    LET n    == PathName(p)
        dots == {i \in 2..Len(n) : n[i] = "."}
    IN  IF dots = {} \/ n[Len(n)] = "." THEN <<>>
        ELSE LET i == CHOOSE d \in dots : \A e \in dots : e <= d
             IN  SubSeq(n, i, Len(n))

\* ---------------------------------------------------------------- file system
\* The files and directories of the modelled file system.
FX == <<"/", "a", "/", "x", ".", "p", "d", "f">>
FZ == <<"/", "a", "/", "z", ".", "c", "s", "v">>
FY == <<"/", "a", "b", "/", "y", ".", "t", "x", "t">>
FN == <<"/", "a", "/", "n", ".", "b", "i", "n">>
Files == {FX, FZ, FY, FN}
DirA  == <<"/", "a">>
DirAB == <<"/", "a", "b">>
Dirs  == {<<"/">>, DirA, DirAB}

\* What a user may type or a caller may pass: absolute, relative, with a
\* trailing separator, with "." and ".." components.
RawPaths == { <<"/", "a", "/">>,
              <<".", ".", "/", "a", "/", ".", "/", "x", ".", "p", "d", "f">>,
              <<"y", ".", "t", "x", "t">> }
\* the same, with the path of a file no loader is registered for
InputPaths == RawPaths \cup { <<".", ".", "/", "a", "/", "n", ".", "b", "i", "n">> }

\* The texts a page, a row or a file can hold, and the number of chunks
\* TEXT_SPLITTER cuts each into (an empty text gives no chunk).
Texts == {"e", "t1", "t2"}
SplitCount(text) == CASE text = "e"  -> 0
                      [] text = "t1" -> 1
                      [] text = "t2" -> 2

NoFile == [exists |-> FALSE, data |-> <<>>]
IsFile(files, p) == p \in Files /\ files[p].exists
IsDir(p)         == p \in Dirs
Exists(files, p) == IsDir(p) \/ IsFile(files, p)

\* p lies in the directory tree below d
NestedUnder(p, d) == IF d = <<"/">> THEN p # d /\ StartsWith(p, d)
                     ELSE StartsWith(p, d \o <<"/">>)

\* the orders in which os.walk can hand over the existing files below d
RECURSIVE Orders(_)
Orders(S) == IF S = {} THEN {<<>>}
             ELSE UNION {{<<f>> \o o : o \in Orders(S \ {f})} : f \in S}
Walks(files, d) == Orders({f \in Files : files[f].exists /\ NestedUnder(f, d)})

\* ---------------------------------------------------------------- loaders
Get(m, k, d) == IF k \in DOMAIN m THEN m[k] ELSE d

SUPPORTED_LOADERS ==
    [s \in { <<".", "p", "y">>, <<".", "p", "d", "f">>, <<".", "t", "x", "t">>,
             <<".", "c", "s", "v">>, <<".", "d", "o", "c", "x">>,
             <<".", "x", "l", "s", "x">>, <<".", "m", "d">>,
             <<".", "p", "p", "t", "x">>, <<".", "h", "t", "m", "l">>,
             <<".", "i", "p", "y", "n", "b">>, <<".", "j", "s", "o", "n">> } |->
       CASE s = <<".", "p", "d", "f">> -> "PyPDFLoader"
         [] s = <<".", "c", "s", "v">> -> "CSVLoader"
         [] s = <<".", "t", "x", "t">> -> "TextLoader"
         [] OTHER -> "OtherLoader"]

\* loader.load(): PyPDFLoader gives one document per page, numbered from 0;
\* CSVLoader one document per row; the others one document per element, all
\* without a page.
LoaderLoad(kind, path, data) ==
    [i \in 1..Len(data) |->
        [metadata |-> IF kind = "PyPDFLoader" THEN [source |-> path, page |-> i - 1]
                      ELSE IF kind = "CSVLoader" THEN [source |-> path, row |-> i - 1]
                      ELSE [source |-> path],
         page_content |-> data[i]]]

\* load_docs_for_path on a file
LoadFileNoPage(files, path) ==
    LET suffix == PathSuffix(path)
    IN  IF suffix \notin DOMAIN SUPPORTED_LOADERS THEN <<>>
        ELSE LET file_docs  == LoaderLoad(SUPPORTED_LOADERS[suffix], path, files[path].data)
                 normalized == normalize_source_path(path)
             IN  [i \in 1..Len(file_docs) |->
                    [metadata |-> [file_name |-> PathName(path),
                                   file_type |-> suffix,
                                   source    |-> normalized]
                                  @@ file_docs[i].metadata,
                     page_content |-> file_docs[i].page_content]]
LoadFileAnySuffix(files, path) ==
    LET suffix == PathSuffix(path)
    IN  LET file_docs  == LoaderLoad("TextLoader", path, files[path].data)
            normalized == normalize_source_path(path)
        IN  [i \in 1..Len(file_docs) |->
               [metadata |-> [file_name |-> PathName(path),
                              file_type |-> suffix,
                              source    |-> normalized,
                              page      |-> Get(file_docs[i].metadata, "page", 0)]
                             @@ file_docs[i].metadata,
                page_content |-> file_docs[i].page_content]]
LoadFile(files, path) ==
    LET suffix == PathSuffix(path)
    IN  IF suffix \notin DOMAIN SUPPORTED_LOADERS THEN <<>>
        ELSE LET file_docs  == LoaderLoad(SUPPORTED_LOADERS[suffix], path, files[path].data)
                 normalized == normalize_source_path(path)
             IN  [i \in 1..Len(file_docs) |->
                    [metadata |-> [file_name |-> PathName(path),
                                   file_type |-> suffix,
                                   source    |-> normalized,
                                   page      |-> Get(file_docs[i].metadata, "page", 0)]
                                  @@ file_docs[i].metadata,
                     page_content |-> file_docs[i].page_content]]

RECURSIVE LoadWalk(_, _)
LoadWalk(files, order) ==
    IF order = <<>> THEN <<>>
    ELSE LoadFile(files, Head(order)) \o LoadWalk(files, Tail(order))

\* load_docs_for_path(path): the document lists it can return
load_docs_for_path(files, path) ==
    IF IsFile(files, path) THEN {LoadFile(files, path)}
    ELSE {LoadWalk(files, o) : o \in Walks(files, path)}

\* ---------------------------------------------------------------- splitter
RECURSIVE split_documents(_)
\* TEXT_SPLITTER.split_documents: the chunks of each document in order, each
\* with a copy of the document's metadata
split_documents(documents) ==
    IF documents = <<>> THEN <<>>
    ELSE LET d == Head(documents)
         IN  [k \in 1..SplitCount(d.page_content) |->
                 [metadata |-> d.metadata,
                  page_content |-> [text |-> d.page_content, piece |-> k]]]
             \o split_documents(Tail(documents))

\* ---------------------------------------------------------------- chunk ids
None == <<>>

\* the locals of calculate_chunk_ids when its loop starts
IdLocalsCarried(carried) == carried
IdLocals(carried) == [last_page_id |-> None, current_chunk_index |-> 0]

\* current_chunk_index after the comparison with last_page_id
NextIndexStuck(same, index) == 0
NextIndexNoReset(same, index) == index + 1
NextIndex(same, index) == IF same THEN index + 1 ELSE 0

RECURSIVE IdLoop(_, _, _)
\* the for loop of calculate_chunk_ids: <<chunks with ids, locals at the end>>
IdLoop(chunks, locals, done) ==
    IF chunks = <<>> THEN <<done, locals>>
    ELSE LET chunk  == Head(chunks)
             source == Get(chunk.metadata, "source", <<>>)
             page   == Get(chunk.metadata, "page", 0)
             current_page_id == source \o <<":">> \o ToStr(page)
             index  == NextIndex(current_page_id = locals.last_page_id,
                                 locals.current_chunk_index)
             chunk_id == current_page_id \o <<":">> \o ToStr(index)
         IN  IdLoop(Tail(chunks),
                    [last_page_id |-> current_page_id, current_chunk_index |-> index],
                    Append(done, [metadata |-> ("id" :> chunk_id) @@ chunk.metadata,
                                  page_content |-> chunk.page_content]))

calculate_chunk_ids(chunks, carried) == IdLoop(chunks, IdLocals(carried), <<>>)

IdsOf(chunks) == [i \in 1..Len(chunks) |-> chunks[i].metadata.id]

\* ---------------------------------------------------------------- Chroma
\* The collection is a set of records, one per stored chunk.
Record(c) == [id |-> c.metadata.id, metadata |-> c.metadata, page_content |-> c.page_content]

\* db.get()["ids"]
DbIds(db) == {r.id : r \in db}

\* db.add_documents(batch, ids=...): Chroma upserts by id
DbAdd(db, batch) ==
    {r \in db : \A i \in 1..Len(batch) : r.id # batch[i].metadata.id}
        \cup {Record(batch[i]) : i \in 1..Len(batch)}

\* db.delete(ids=...)
DbDeleteOthers(db, ids) == {r \in db : r.id \in ids}
DbDelete(db, ids) == {r \in db : r.id \notin ids}

\* ---------------------------------------------------------------- add_to_chroma
batch_size == 2000

\* the loop normalising each chunk's source before the ids are computed
RECURSIVE NormalizeSources(_)
NormalizeSources(chunks) ==
    IF chunks = <<>> THEN <<>>
    ELSE LET c == Head(chunks)
             m == c.metadata
         IN  <<[metadata |-> IF Get(m, "source", <<>>) # <<>>
                             THEN ("source" :> normalize_source_path(m.source)) @@ m
                             ELSE m,
                page_content |-> c.page_content]>>
             \o NormalizeSources(Tail(chunks))

\* new_chunks: the chunks whose id is not among the existing ids
NewChunksAll(chunks_with_ids, existing_ids) == chunks_with_ids
RECURSIVE NewChunks(_, _)
NewChunks(chunks_with_ids, existing_ids) ==
    IF chunks_with_ids = <<>> THEN <<>>
    ELSE (IF Head(chunks_with_ids).metadata.id \notin existing_ids
          THEN <<Head(chunks_with_ids)>> ELSE <<>>)
         \o NewChunks(Tail(chunks_with_ids), existing_ids)

RECURSIVE AddLoop(_, _, _, _, _)
\* for i in range(0, len(new_chunks), size): batch = new_chunks[i:i + size];
\* db.add_documents(batch, ...): the store it leaves and the batches it made
AddLoop(db, new_chunks, i, size, batches) ==
    IF i >= Len(new_chunks) THEN [db |-> db, batches |-> batches]
    ELSE LET hi    == IF i + size < Len(new_chunks) THEN i + size ELSE Len(new_chunks)
             batch == SubSeq(new_chunks, i + 1, hi)
         IN  AddLoop(DbAdd(db, batch), new_chunks, i + size, size, Append(batches, batch))

\* the loop as index_path has it run, with the default batch_size
AddBatches(db, new_chunks, i) == AddLoop(db, new_chunks, i, batch_size, <<>>).db

\* ---------------------------------------------------------------- delete_from_chroma_by_source
\* whether a record's normalized source is selected for deletion
SourceMatchesNever(is_dir, src_norm, normalized) == FALSE
SourceMatchesDirOnly(is_dir, src_norm, normalized) ==
    is_dir /\ StartsWith(src_norm, normalized)
SourceMatches(is_dir, src_norm, normalized) ==
    IF is_dir THEN StartsWith(src_norm, normalized) ELSE src_norm = normalized

\* ids_to_delete for the snapshot all_docs
IdsToDelete(all_docs, normalized) ==
    LET is_dir == IsDir(normalized)
    IN  {r.id : r \in {d \in all_docs :
                         LET src == Get(d.metadata, "source", <<>>)
                         IN  /\ src # <<>>
                             /\ SourceMatches(is_dir, normalize_source_path(src), normalized)}}

\* ---------------------------------------------------------------- db.get
\* what db.get() can do: on a store that holds no record (an empty
\* collection, or a directory no collection was ever created in) it returns
\* nothing or raises; else it returns the records
GetOutcomes(db) == IF db = {} THEN {"ok", "raise"} ELSE {"ok"}

\* ---------------------------------------------------------------- list_sources_in_chroma
\* sources[n] = sources.get(n, 0) + 1
CountedOnce(sources, n)  == [k \in DOMAIN sources \cup {n} |-> IF k = n THEN 1 ELSE sources[k]]
CountedAgain(sources, n) ==
    [k \in DOMAIN sources \cup {n} |-> IF k = n THEN Get(sources, n, 0) + 1 ELSE sources[k]]

RECURSIVE CountSources(_, _)
\* the loop over the metadatas db.get returned, in whatever order it returns them
CountSources(metas, sources) ==
    IF metas = {} THEN sources
    ELSE LET r   == CHOOSE x \in metas : TRUE
             src == Get(r.metadata, "source", <<>>)
         IN  CountSources(metas \ {r},
                          IF src # <<>>
                          THEN CountedAgain(sources, normalize_source_path(src))
                          ELSE sources)

list_sources_in_chroma(db) == CountSources(db, [n \in {} |-> 0])

\* what a call of list_sources_in_chroma comes to, db.get having done `got`:
\* the except clause turns a failure into the empty mapping
ListOutcomeUnhandled(got, db) ==
    IF got = "raise" THEN [raised |-> TRUE, value |-> "raised"]
    ELSE [raised |-> FALSE, value |-> list_sources_in_chroma(db)]
ListOutcome(got, db) ==
    IF got = "raise" THEN [raised |-> FALSE, value |-> [n \in {} |-> 0]]
    ELSE [raised |-> FALSE, value |-> list_sources_in_chroma(db)]

\* ---------------------------------------------------------------- state
VARIABLES
    fs,        \* the files: [Files -> [exists, data]], data the texts a loader finds
    edits,     \* number of changes made to the files so far
    store,     \* the Chroma collection persisted under CHROMA_PATH
    lock,      \* holder of the FileLock on .chroma_lock.lock, 0 when free
    marker,    \* whether RESET_MARKER exists
    flagged,   \* the records the store held when RESET_MARKER was written
    pc,        \* [Sessions -> position of the session's running call]
    loc,       \* [Sessions -> locals of the session's running call]
    hist,      \* the last two completed calls, oldest first
    calls,     \* number of calls started so far
    idLocals,  \* locals of calculate_chunk_ids as its last run left them
    idsIn,     \* argument of the last run of calculate_chunk_ids
    idsOut     \* result of the last run of calculate_chunk_ids

vars == <<fs, edits, store, lock, marker, flagged, pc, loc, hist, calls, idLocals, idsIn, idsOut>>

\* script runs that can be in flight at once (one per browser session)
Sessions == {1, 2}
Free == 0

\* the data a file of the given name can hold
FileData(f) ==
    IF PathSuffix(f) \notin DOMAIN SUPPORTED_LOADERS THEN {<<"t1">>}
    ELSE IF PathSuffix(f) = <<".", "t", "x", "t">> THEN {<<t>> : t \in Texts}
    ELSE UNION {[1..n -> Texts] : n \in 1..MaxPages}

NoLocals == [op |-> "none", path |-> <<>>, normalized |-> <<>>, existed |-> FALSE,
             before |-> {}, e0 |-> 0, n |-> 0, el |-> 0, flag |-> FALSE, flagged |-> {},
             raised |-> FALSE, failed |-> <<>>,
             all_docs |-> {}, ids_to_delete |-> {}, removed |-> 0, deleted |-> {},
             docs |-> <<>>, chunks |-> <<>>, new_chunks |-> <<>>]

Init ==
    /\ fs = [f \in Files |->
               [exists |-> TRUE,
                data   |-> IF f = FX THEN <<"t2", "t1">>
                           ELSE IF f = FZ THEN <<"t1", "t1">> ELSE <<"t1">>]]
    /\ edits = 0
    /\ store = {}
    /\ lock = Free
    /\ marker = FALSE
    /\ flagged = {}
    /\ pc = [p \in Sessions |-> "start"]
    /\ loc = [p \in Sessions |-> NoLocals]
    /\ hist = <<>>
    /\ calls = 0
    /\ idLocals = [last_page_id |-> None, current_chunk_index |-> 0]
    /\ idsIn = <<>>
    /\ idsOut = <<>>

\* ---------------------------------------------------------------- the files change
\* The program reads the files when a call starts and when it loads; a change
\* at any other moment of a call shows to it as the same change made at the
\* next of these moments, so the changes are taken there.
ReadPoint == \A p \in Sessions : pc[p] \in {"start", "idle", "load"}

WriteFile(f, data) ==
    /\ edits < MaxEdits
    /\ ReadPoint
    /\ fs[f] # [exists |-> TRUE, data |-> data]
    /\ fs' = [fs EXCEPT ![f] = [exists |-> TRUE, data |-> data]]
    /\ edits' = edits + 1
    /\ UNCHANGED <<store, lock, marker, flagged, pc, loc, hist, calls, idLocals, idsIn, idsOut>>

RemoveFile(f) ==
    /\ edits < MaxEdits
    /\ ReadPoint
    /\ fs[f].exists
    /\ fs' = [fs EXCEPT ![f] = NoFile]
    /\ edits' = edits + 1
    /\ UNCHANGED <<store, lock, marker, flagged, pc, loc, hist, calls, idLocals, idsIn, idsOut>>

\* ---------------------------------------------------------------- calls return
\* the history with the record of a completed call appended
Logged(e) == IF Len(hist) < 2 THEN Append(hist, e) ELSE <<hist[2], e>>

\* the record of a completed call or startup check: l its locals, ret what it
\* returned, db the collection as it left it
Entry(l, ret, db) ==
    [op |-> l.op, path |-> l.normalized, existed |-> l.existed, ret |-> ret,
     before |-> l.before, after |-> db, e0 |-> l.e0, e1 |-> edits,
     docs |-> l.docs, chunks |-> l.chunks,
     n |-> l.n, el |-> l.el, c1 |-> IF l.n > calls THEN l.n ELSE calls,
     flag |-> l.flag, flagged |-> l.flagged, raised |-> l.raised, failed |-> l.failed]

\* session p's call returns ret, the collection being db; after clear_chroma
\* the script asks for a rerun (st.rerun), after the other calls it goes on
Return(p, l, ret, db) ==
    /\ hist' = Logged(Entry(l, ret, db))
    /\ pc' = [pc EXCEPT ![p] = IF l.op = "clear" THEN "start" ELSE "idle"]
    /\ loc' = [loc EXCEPT ![p] = NoLocals]

\* ---------------------------------------------------------------- auto_reset_chroma
\* The script runs from its top on every rerun, auto_reset_chroma first. With
\* RESET_MARKER present, rmtree(ignore_errors=True) removes the directory or
\* leaves it without a word, and the marker is unlinked either way. Without
\* the marker it changes nothing, so only the rerun a session must make (its
\* first run, the one after clear_chroma) is taken when there is no marker.
ScriptStart(p) ==
    /\ pc[p] = "start" \/ (pc[p] = "idle" /\ marker)
    /\ pc' = [pc EXCEPT ![p] = "idle"]
    /\ IF marker
       THEN \E removed \in BOOLEAN :
              /\ store' = IF removed THEN {} ELSE store
              /\ marker' = FALSE
              /\ flagged' = {}
              /\ hist' = Logged(Entry([NoLocals EXCEPT !.op = "reset", !.before = store,
                                                       !.e0 = edits, !.flagged = flagged,
                                                       !.flag = marker'],
                                      "None", store'))
       ELSE UNCHANGED <<store, marker, flagged, hist>>
    /\ UNCHANGED <<fs, edits, lock, loc, calls, idLocals, idsIn, idsOut>>

\* the locals of a call that starts: path is the path the call works on,
\* normalized what delete_from_chroma_by_source makes of it
Begin(p, op, path, existed) ==
    [NoLocals EXCEPT !.op = op, !.path = path, !.existed = existed,
                     !.normalized = IF op \in {"index", "delete"}
                                    THEN normalize_source_path(path) ELSE <<>>,
                     !.before = store, !.e0 = edits, !.n = calls + 1]

\* ---------------------------------------------------------------- index_path
\* index_path up to the call of delete_from_chroma_by_source
IndexPath(p, raw) ==
    /\ pc[p] = "idle"
    /\ calls < MaxCalls
    /\ calls' = calls + 1
    /\ LET path_obj == Resolve(raw)
       IN  IF ~Exists(fs, path_obj)
           THEN /\ Return(p, Begin(p, "index", path_obj, FALSE), <<0, 0>>, store)
           ELSE /\ pc' = [pc EXCEPT ![p] = "del_lock"]
                /\ loc' = [loc EXCEPT ![p] = Begin(p, "index", path_obj, TRUE)]
                /\ UNCHANGED hist
    /\ UNCHANGED <<fs, edits, store, lock, marker, flagged, idLocals, idsIn, idsOut>>

\* delete_from_chroma_by_source called on its own (delete_source)
DeleteSource(p, raw) ==
    /\ pc[p] = "idle"
    /\ calls < MaxCalls
    /\ calls' = calls + 1
    /\ pc' = [pc EXCEPT ![p] = "del_lock"]
    /\ loc' = [loc EXCEPT ![p] = Begin(p, "delete", raw,
                                       Exists(fs, normalize_source_path(raw)))]
    /\ UNCHANGED <<fs, edits, store, lock, marker, flagged, hist, idLocals, idsIn, idsOut>>

\* with lock: (delete_from_chroma_by_source)
DeleteAcquire(p) ==
    /\ pc[p] = "del_lock"
    /\ lock = Free
    /\ lock' = p
    /\ pc' = [pc EXCEPT ![p] = "del_scan"]
    /\ UNCHANGED <<fs, edits, store, marker, flagged, loc, hist, calls, idLocals, idsIn, idsOut>>

\* delete_from_chroma_by_source has returned `removed` to its caller
AfterDelete(p, l, removed, db) ==
    IF l.op = "delete"
    THEN Return(p, l, removed, db)
    ELSE /\ pc' = [pc EXCEPT ![p] = "load"]
         /\ loc' = [loc EXCEPT ![p] = [l EXCEPT !.removed = removed, !.deleted = db]]
         /\ UNCHANGED hist

\* db.get and the loop collecting ids_to_delete; returns 0 when there are none
\* and when db.get raised (except Exception: return 0)
DeleteScan(p) ==
    /\ pc[p] = "del_scan"
    /\ \E got \in GetOutcomes(store) :
       LET all_docs == store
           ids      == IdsToDelete(all_docs, loc[p].normalized)
           l        == [loc[p] EXCEPT !.all_docs = all_docs, !.ids_to_delete = ids]
       IN  IF got = "raise" \/ ids = {}
           THEN /\ lock' = Free
                /\ AfterDelete(p, l, 0, store)
           ELSE /\ pc' = [pc EXCEPT ![p] = "del_delete"]
                /\ loc' = [loc EXCEPT ![p] = l]
                /\ UNCHANGED <<lock, hist>>
    /\ UNCHANGED <<fs, edits, store, marker, flagged, calls, idLocals, idsIn, idsOut>>

\* db.delete(ids=ids_to_delete), persist, leave the lock, return the count
DeleteWrite(p) ==
    /\ pc[p] = "del_delete"
    /\ store' = DbDelete(store, loc[p].ids_to_delete)
    /\ lock' = Free
    /\ AfterDelete(p, loc[p], Cardinality(loc[p].ids_to_delete), store')
    /\ UNCHANGED <<fs, edits, marker, flagged, calls, idLocals, idsIn, idsOut>>

\* load_docs_for_path, split_documents and add_to_chroma up to its lock
LoadAndSplit(p) ==
    /\ pc[p] = "load"
    /\ \E docs \in load_docs_for_path(fs, loc[p].path) :
         LET chunks == split_documents(docs)
             run    == calculate_chunk_ids(NormalizeSources(chunks), idLocals)
             l      == [loc[p] EXCEPT !.docs = docs, !.el = edits]
         IN  IF docs = <<>>
             THEN /\ Return(p, l, <<0, 0>>, store)
                  /\ UNCHANGED <<idLocals, idsIn, idsOut>>
             ELSE IF chunks = <<>>
             THEN /\ Return(p, l, <<Len(docs), 0>>, store)
                  /\ UNCHANGED <<idLocals, idsIn, idsOut>>
             ELSE /\ idsIn' = NormalizeSources(chunks)
                  /\ idsOut' = run[1]
                  /\ idLocals' = run[2]
                  /\ pc' = [pc EXCEPT ![p] = "add_lock"]
                  /\ loc' = [loc EXCEPT ![p] = [l EXCEPT !.chunks = run[1]]]
                  /\ UNCHANGED hist
    /\ UNCHANGED <<fs, edits, store, lock, marker, flagged, calls>>

\* with lock: (add_to_chroma)
AddAcquire(p) ==
    /\ pc[p] = "add_lock"
    /\ lock = Free
    /\ lock' = p
    /\ pc' = [pc EXCEPT ![p] = "add_scan"]
    /\ UNCHANGED <<fs, edits, store, marker, flagged, loc, hist, calls, idLocals, idsIn, idsOut>>

\* db.get (existing_ids is empty when it raised) and new_chunks; returns 0
\* when nothing is new
AddScan(p) ==
    /\ pc[p] = "add_scan"
    /\ \E got \in GetOutcomes(store) :
       LET existing_ids == IF got = "raise" THEN {} ELSE DbIds(store)
           new_chunks   == NewChunks(loc[p].chunks, existing_ids)
       IN  IF new_chunks = <<>>
           THEN /\ lock' = Free
                /\ Return(p, loc[p], <<Len(loc[p].docs), 0>>, store)
           ELSE /\ pc' = [pc EXCEPT ![p] = "add_write"]
                /\ loc' = [loc EXCEPT ![p] = [loc[p] EXCEPT !.new_chunks = new_chunks]]
                /\ UNCHANGED <<lock, hist>>
    /\ UNCHANGED <<fs, edits, store, marker, flagged, calls, idLocals, idsIn, idsOut>>

\* the batches are added, persisted, the lock is left, index_path returns
AddWrite(p) ==
    /\ pc[p] = "add_write"
    /\ store' = AddBatches(store, loc[p].new_chunks, 0)
    /\ lock' = Free
    /\ Return(p, loc[p], <<Len(loc[p].docs), Len(loc[p].new_chunks)>>, store')
    /\ UNCHANGED <<fs, edits, marker, flagged, calls, idLocals, idsIn, idsOut>>

\* ---------------------------------------------------------------- failures
\* an exception leaves session p's call: nothing catches it in index_path or
\* in the script, the script run ends
Raise(p, l, db) ==
    /\ hist' = Logged(Entry([l EXCEPT !.raised = TRUE], "raised", db))
    /\ pc' = [pc EXCEPT ![p] = "idle"]
    /\ loc' = [loc EXCEPT ![p] = NoLocals]

\* the files load_docs_for_path hands to a loader
LoadedFiles(files, path) ==
    {f \in Files : /\ files[f].exists
                   /\ f = path \/ NestedUnder(f, path)
                   /\ PathSuffix(f) \in DOMAIN SUPPORTED_LOADERS}

\* loader.load() raises on file f (a file the loader cannot read):
\* load_docs_for_path has no handler, nor has index_path
LoadFails(p) ==
    /\ pc[p] = "load"
    /\ \E f \in LoadedFiles(fs, loc[p].path) :
         Raise(p, [loc[p] EXCEPT !.failed = f, !.el = edits], store)
    /\ UNCHANGED <<fs, edits, store, lock, marker, flagged, calls, idLocals, idsIn, idsOut>>

\* db.delete raises inside the with block of delete_from_chroma_by_source:
\* except Exception returns 0, the with block leaves the lock
DeleteFails(p) ==
    /\ pc[p] = "del_delete"
    /\ lock' = Free
    /\ AfterDelete(p, loc[p], 0, store)
    /\ UNCHANGED <<fs, edits, store, marker, flagged, calls, idLocals, idsIn, idsOut>>

\* db.add_documents raises (the embedding service or the store fails): the
\* with block leaves the lock, the exception leaves add_to_chroma and index_path
AddFailsHoldingLock(p) ==
    /\ pc[p] = "add_write"
    /\ Raise(p, loc[p], store)
    /\ UNCHANGED <<fs, edits, store, lock, marker, flagged, calls, idLocals, idsIn, idsOut>>
AddFails(p) ==
    /\ pc[p] = "add_write"
    /\ lock' = Free
    /\ Raise(p, loc[p], store)
    /\ UNCHANGED <<fs, edits, store, marker, flagged, calls, idLocals, idsIn, idsOut>>

\* ---------------------------------------------------------------- list_sources_in_chroma
ListSources(p) ==
    /\ pc[p] = "idle"
    /\ calls < MaxCalls
    /\ calls' = calls + 1
    /\ \E got \in GetOutcomes(store) :
       LET out == ListOutcome(got, store)
       IN  IF out.raised THEN Raise(p, Begin(p, "list", <<>>, FALSE), store)
           ELSE Return(p, Begin(p, "list", <<>>, FALSE), out.value, store)
    /\ UNCHANGED <<fs, edits, store, lock, marker, flagged, idLocals, idsIn, idsOut>>

\* ---------------------------------------------------------------- clear_chroma
\* db.get()["ids"]; when it raises the handler goes on to rmtree
ClearScan(p) ==
    /\ pc[p] = "idle"
    /\ calls < MaxCalls
    /\ calls' = calls + 1
    /\ \E got \in GetOutcomes(store) :
       LET l == [Begin(p, "clear", <<>>, FALSE) EXCEPT
                    !.ids_to_delete = IF got = "raise" THEN {} ELSE DbIds(store)]
       IN  /\ loc' = [loc EXCEPT ![p] = l]
           /\ pc' = [pc EXCEPT ![p] = IF l.ids_to_delete # {} THEN "clear_delete"
                                      ELSE "clear_rmtree"]
    /\ UNCHANGED <<fs, edits, store, lock, marker, flagged, hist, idLocals, idsIn, idsOut>>

\* db.delete(ids=ids)
ClearDelete(p) ==
    /\ pc[p] = "clear_delete"
    /\ store' = DbDelete(store, loc[p].ids_to_delete)
    /\ pc' = [pc EXCEPT ![p] = "clear_rmtree"]
    /\ UNCHANGED <<fs, edits, lock, marker, flagged, loc, hist, calls, idLocals, idsIn, idsOut>>

\* shutil.rmtree(CHROMA_PATH): it removes the directory with all it holds, or
\* it raises PermissionError and RESET_MARKER is written; then mkdir
ClearRmtree(p) ==
    /\ pc[p] = "clear_rmtree"
    /\ \E removed \in BOOLEAN :
         /\ store' = IF removed THEN {} ELSE store
         /\ marker' = ~removed
         /\ flagged' = IF removed THEN {} ELSE store
         /\ Return(p, [loc[p] EXCEPT !.flag = ~removed], "None", store')
    /\ UNCHANGED <<fs, edits, lock, calls, idLocals, idsIn, idsOut>>

\* ---------------------------------------------------------------- specifications
Step(p) ==
    \/ ScriptStart(p)
    \/ \E raw \in RawPaths : IndexPath(p, raw)
    \/ \E raw \in RawPaths : DeleteSource(p, raw)
    \/ DeleteAcquire(p)
    \/ DeleteScan(p)
    \/ DeleteWrite(p)
    \/ LoadAndSplit(p)
    \/ AddAcquire(p)
    \/ AddScan(p)
    \/ AddWrite(p)
    \/ ListSources(p)
    \/ ClearScan(p)
    \/ ClearDelete(p)
    \/ ClearRmtree(p)

Env ==
    \/ \E f \in Files : \E data \in FileData(f) : WriteFile(f, data)
    \/ \E f \in Files : RemoveFile(f)

\* one session: the calls follow one another
Next == Step(1) \/ Env
Spec == Init /\ [][Next]_vars

\* one session whose loaders and store can fail, over unchanging files
Fail(p) == LoadFails(p) \/ DeleteFails(p) \/ AddFails(p)
NextFail == Step(1) \/ Fail(1)
SpecFail == Init /\ [][NextFail]_vars

\* two sessions that index and delete, with loaders and store that can fail;
\* a script run that is inside a call goes on running: the step it stands
\* before is taken when it stays possible (FileLock.acquire polls without
\* timeout, so it gets a lock that stays free)
LiveStep(p) ==
    \/ ScriptStart(p)
    \/ \E raw \in RawPaths : calls < MaxLive /\ IndexPath(p, raw)
    \/ \E raw \in RawPaths : calls < MaxLive /\ DeleteSource(p, raw)
    \/ DeleteAcquire(p)
    \/ DeleteScan(p)
    \/ DeleteWrite(p)
    \/ LoadAndSplit(p)
    \/ AddAcquire(p)
    \/ AddScan(p)
    \/ AddWrite(p)
    \/ Fail(p)

\* the steps of a call under way, failing ones included: at every position
\* of a call there is one to take, save that the two positions before a
\* with lock: block have theirs only while the lock is free
Progress(p) ==
    \/ DeleteAcquire(p) \/ DeleteScan(p) \/ DeleteFails(p) \/ DeleteWrite(p)
    \/ LoadFails(p) \/ LoadAndSplit(p)
    \/ AddAcquire(p) \/ AddScan(p) \/ AddFails(p) \/ AddWrite(p)

NextLive == \E p \in Sessions : LiveStep(p)
SpecLive == Init /\ [][NextLive]_vars /\ \A p \in Sessions : WF_vars(Progress(p))

\* two sessions over unchanging files: their calls overlap
NextConc == \E p \in Sessions : Step(p)
SpecConc == Init /\ [][NextConc]_vars

\* two sessions that only index, over files that change
IndexStep(p) ==
    \/ ScriptStart(p)
    \/ \E raw \in RawPaths : calls < MaxOverlap /\ IndexPath(p, raw)
    \/ DeleteAcquire(p)
    \/ DeleteScan(p)
    \/ DeleteWrite(p)
    \/ LoadAndSplit(p)
    \/ AddAcquire(p)
    \/ AddScan(p)
    \/ AddWrite(p)

NextOverlap == (\E p \in Sessions : IndexStep(p)) \/ Env
SpecOverlap == Init /\ [][NextOverlap]_vars

\* one session that only indexes, also files without a loader, over files
\* that change
InputStep(p) ==
    \/ ScriptStart(p)
    \/ \E raw \in InputPaths : IndexPath(p, raw)
    \/ DeleteAcquire(p)
    \/ DeleteScan(p)
    \/ DeleteWrite(p)
    \/ LoadAndSplit(p)
    \/ AddAcquire(p)
    \/ AddScan(p)
    \/ AddWrite(p)

NextInput == InputStep(1) \/ Env
SpecInput == Init /\ [][NextInput]_vars

\* calculate_chunk_ids on its own, given any list of chunks
ChunkMetas == { [source |-> FX, page |-> 0], [source |-> FX, page |-> 1],
                [source |-> FY], [page |-> 0] }
ChunkLists ==
    UNION {[1..n -> [metadata : ChunkMetas,
                     page_content : {[text |-> "t1", piece |-> 1]}]] : n \in 0..MaxLen}

AssignIds(chunks) ==
    /\ idsIn' = chunks
    /\ idsOut' = calculate_chunk_ids(chunks, idLocals)[1]
    /\ idLocals' = calculate_chunk_ids(chunks, idLocals)[2]
    /\ UNCHANGED <<fs, edits, store, lock, marker, flagged, pc, loc, hist, calls>>

NextIds == \E chunks \in ChunkLists : AssignIds(chunks)
SpecIds == Init /\ [][NextIds]_vars

\* ---------------------------------------------------------------- properties
SourceOf(r) == Get(r.metadata, "source", <<>>)
Last == hist[Len(hist)]

\* the last two completed calls are index_path on the same path, and the files
\* did not change from the start of the first to the return of the second
TwiceInSuccession ==
    /\ Len(hist) = 2
    /\ hist[1].op = "index" /\ hist[2].op = "index"
    /\ hist[1].path = hist[2].path
    /\ hist[1].existed /\ hist[2].existed
    /\ hist[1].e0 = hist[2].e1

\* the records a call's load produces
Fresh(e) == {Record(e.chunks[i]) : i \in 1..Len(e.chunks)}

\* C1 as stated: the second of two successive index_path calls on an existing,
\* unchanged path returns (D, 0), D the number of documents of the first call.
C1_SecondReturnsZero ==
    TwiceInSuccession => hist[2].ret = <<hist[1].ret[1], 0>>

\* C1 as amended: the second call returns what the first returned, (D, A), with
\* D the documents loaded and A the number of chunks of the path's content,
\* all deleted and added again; A is 0 only when the content gives no chunk.
C1_SecondReturnsSame ==
    TwiceInSuccession =>
        /\ hist[2].ret = hist[1].ret
        /\ hist[2].ret = <<Len(hist[2].docs), Len(hist[2].chunks)>>

C1_Witness ==
    /\ TwiceInSuccession
    /\ hist[2].ret[1] > 0
    /\ hist[2].ret[2] > 0
    /\ hist[2].ret = hist[1].ret

\* C2: after two successive index_path calls on an unchanged path the
\* collection holds exactly the records it held after the first call, and in
\* every state no identifier is stored twice.
C2_StoreIdempotent ==
    /\ TwiceInSuccession => hist[2].after = hist[1].after
    /\ \A r1, r2 \in store : r1.id = r2.id => r1 = r2

C2_Witness ==
    /\ TwiceInSuccession
    /\ hist[2].ret[2] > 0
    /\ hist[2].before # {}
    /\ hist[2].after = hist[1].after
    /\ \E r \in hist[2].after : SourceOf(r) # hist[2].path /\ ~NestedUnder(SourceOf(r), hist[2].path)

\* a record of the collection that belongs to path: its source is the path or
\* lies below it
BelongsTo(r, path) == SourceOf(r) = path \/ NestedUnder(SourceOf(r), path)

\* C3 as stated: when index_path returns, for every path it was called with,
\* every stored record whose source is the path or lies under it was produced
\* by this call's load.
C3_NoStaleAnyPath ==
    (hist # <<>> /\ Last.op = "index") =>
        \A r \in Last.after : BelongsTo(r, Last.path) => r \in Fresh(Last)

\* C3 as amended: the same, for every path that exists when index_path is
\* called (a path that does not exist returns (0, 0) before anything is deleted).
C3_NoStaleExistingPath ==
    (hist # <<>> /\ Last.op = "index" /\ Last.existed) =>
        \A r \in Last.after : BelongsTo(r, Last.path) => r \in Fresh(Last)

C3_Witness ==
    /\ hist # <<>> /\ Last.op = "index" /\ Last.existed
    /\ \E r \in Last.before : BelongsTo(r, Last.path) /\ r \notin Fresh(Last)
    /\ \E r \in Last.after : BelongsTo(r, Last.path)

\* the last completed call is delete_source on a directory
DeletedDir == hist # <<>> /\ Last.op = "delete" /\ IsDir(Last.path)

\* C4: delete_source on a directory X removes a record only if its source is
\* nested under X (X followed by a separator).
C4_PrefixAnchored ==
    DeletedDir => \A r \in Last.before \ Last.after : NestedUnder(SourceOf(r), Last.path)

\* C5: with files of two directories indexed, delete_source on one directory
\* leaves every record of a source outside it in place, and list_sources
\* reports the same count for that source as before.
C5_OtherSourcesKept ==
    (DeletedDir /\ \E r \in Last.before : NestedUnder(SourceOf(r), Last.path)) =>
        \A r \in Last.before :
            ~NestedUnder(SourceOf(r), Last.path) =>
                /\ r \in Last.after
                /\ SourceOf(r) \in DOMAIN list_sources_in_chroma(Last.after)
                /\ list_sources_in_chroma(Last.after)[SourceOf(r)]
                     = list_sources_in_chroma(Last.before)[SourceOf(r)]

\* the records delete_source(path) is to remove: exact source for a file,
\* nested sources for a directory
ToRemove(db, path) ==
    {r \in db : IF IsDir(path) THEN NestedUnder(SourceOf(r), path) ELSE SourceOf(r) = path}

\* C6: delete_source returns the number of records it removed, removes all and
\* only the matching ones (returning 0 and changing nothing when none
\* matches), and afterwards list_sources has no entry for the source or for a
\* source under it.
C6_DeleteAllAndOnly ==
    (hist # <<>> /\ Last.op = "delete") =>
        /\ Last.ret = Cardinality(Last.before \ Last.after)
        /\ Last.after = Last.before \ ToRemove(Last.before, Last.path)
        /\ ToRemove(Last.before, Last.path) = {} => Last.ret = 0 /\ Last.after = Last.before
        /\ \A n \in DOMAIN list_sources_in_chroma(Last.after) :
               n # Last.path /\ ~NestedUnder(n, Last.path)

PageKey(c) == Get(c.metadata, "source", <<>>) \o <<":">> \o ToStr(Get(c.metadata, "page", 0))

\* the number of chunks just before position i that share its page key without
\* interruption
RunBefore(chunks, i) ==
    Cardinality({j \in 1..(i - 1) : \A k \in j..i : PageKey(chunks[k]) = PageKey(chunks[i])})

\* C8: the index of a chunk is 0 when it is the first chunk or its page key
\* differs from the previous chunk's, else the previous index plus 1, and the
\* identifier is page_key:index.
C8_CounterReset ==
    /\ Len(idsOut) = Len(idsIn)
    /\ \A i \in 1..Len(idsOut) :
         idsOut[i].metadata.id
            = PageKey(idsIn[i]) \o <<":">> \o ToStr(RunBefore(idsIn, i))

\* page keys a, a, b, a with a the key of a chunk without source
C8_Witness ==
    /\ Len(idsIn) = 4
    /\ "source" \notin DOMAIN idsIn[1].metadata
    /\ PageKey(idsIn[1]) = PageKey(idsIn[2])
    /\ PageKey(idsIn[3]) # PageKey(idsIn[1])
    /\ PageKey(idsIn[4]) = PageKey(idsIn[1])
    /\ IdsOf(idsOut) = << <<":", "0", ":", "0">>, <<":", "0", ":", "1">>,
                          PageKey(idsIn[3]) \o <<":", "0">>, <<":", "0", ":", "0">> >>

Mutating == {"del_scan", "del_delete", "add_scan", "add_write", "clear_delete", "clear_rmtree"}

\* C10: every change of the store is made by a session that holds the
\* directory's lock, so at most one changing sequence is under way.
C10_WritersHoldLock ==
    /\ \A p \in Sessions : pc[p] \in Mutating => lock = p
    /\ \A p, q \in Sessions : (pc[p] \in Mutating /\ pc[q] \in Mutating) => p = q

\* positions of index_path from the lock of its deletion to the end of its add
DeleteThenAdd == {"del_scan", "del_delete", "load", "add_lock", "add_scan", "add_write"}

\* C11: index_path holds the lock from its deletion to the end of its add, so
\* when its add reads the store, the store is as its deletion left it: no
\* other writer changed it in between.
C11_AtomicDeleteThenAdd ==
    \A p \in Sessions :
        /\ (loc[p].op = "index" /\ pc[p] \in DeleteThenAdd) => lock = p
        /\ pc[p] = "add_scan" => store = loc[p].deleted

\* the last two completed calls are index_path calls on one existing path that
\* overlapped: the one that returned last had started before the other
\* returned; no later call had started when it returned, and the files did
\* not change after the later of the two loads
Overlapped ==
    /\ Len(hist) = 2
    /\ hist[1].op = "index" /\ hist[2].op = "index"
    /\ hist[1].path = hist[2].path
    /\ hist[1].existed /\ hist[2].existed
    /\ hist[2].n <= hist[1].c1
    /\ hist[2].c1 = (IF hist[1].n > hist[2].n THEN hist[1].n ELSE hist[2].n)
    /\ (IF hist[1].el > hist[2].el THEN hist[1].el ELSE hist[2].el) = hist[2].e1
    /\ edits = hist[2].e1

\* the record sets one index_path call on the present content of path leaves
\* for that path
SingleCallLeaves(path) ==
    {{Record(c) : c \in {calculate_chunk_ids(NormalizeSources(split_documents(docs)),
                                             idLocals)[1][i] :
                            i \in 1..Len(split_documents(docs))}} :
        docs \in load_docs_for_path(fs, path)}

\* C12: when two overlapping index_path calls on one path have both returned,
\* no identifier is stored twice and the records of that path are exactly
\* those a single index_path call on the final content would leave.
C12_OverlapAsSingleCall ==
    /\ \A r1, r2 \in store : r1.id = r2.id => r1 = r2
    /\ Overlapped =>
         {r \in hist[2].after : BelongsTo(r, hist[2].path)} \in SingleCallLeaves(hist[2].path)

\* C13: when clear_chroma has returned, the store holds no record or
\* RESET_MARKER is set; when a startup check has run with the marker set, no
\* record is left in the store and the marker is cleared.
C13_ClearThenReset ==
    \A i \in 1..Len(hist) :
        /\ hist[i].op = "clear" => (hist[i].after = {} \/ hist[i].flag)
        /\ hist[i].op = "reset" => (hist[i].after = {} /\ ~hist[i].flag)

\* positions at which a session is inside index_path or delete_source
Operating == {"del_lock", "del_scan", "del_delete", "load", "add_lock", "add_scan", "add_write"}

\* C14: while RESET_MARKER is set no session is inside an indexing or deleting
\* call, and a startup check removes no record but those the store held when
\* the marker was written.
C14_NoWorkWhilePending ==
    /\ marker => \A p \in Sessions : pc[p] \notin Operating
    /\ \A i \in 1..Len(hist) :
         hist[i].op = "reset" => (hist[i].before \ hist[i].after) \subseteq hist[i].flagged

\* C15: no failure of a step leaves index_path: it returns a pair of counts
\* whatever loader or add fails, and when the loader fails on one file of a
\* directory the other files of the directory are indexed all the same.
C15_FailuresSwallowed ==
    \A i \in 1..Len(hist) :
        hist[i].op = "index" =>
            /\ ~hist[i].raised
            /\ hist[i].failed # <<>> =>
                 \A f \in LoadedFiles(fs, hist[i].path) \ {hist[i].failed} :
                     (\E k \in 1..Len(fs[f].data) : fs[f].data[k] # "e") =>
                         \E r \in hist[i].after : SourceOf(r) = f

\* C16: on a store that holds no record, list_sources returns the empty
\* mapping, delete_source returns 0 for every path, clear_chroma completes;
\* none of them raises and the store holds no record afterwards.
C16_EmptyStoreSafe ==
    \A i \in 1..Len(hist) :
        (hist[i].before = {} /\ hist[i].op \in {"list", "delete", "clear"}) =>
            /\ ~hist[i].raised
            /\ hist[i].after = {}
            /\ hist[i].op = "list" => DOMAIN hist[i].ret = {}
            /\ hist[i].op = "delete" => hist[i].ret = 0

C16_Witness ==
    /\ Len(hist) = 2
    /\ hist[1].op = "delete" /\ hist[1].before = {} /\ hist[1].ret = 0
    /\ hist[2].op = "list" /\ hist[2].before = {} /\ DOMAIN hist[2].ret = {}
    /\ store = {}

\* the number of documents the loaders give for the files below or at path
RECURSIVE DocCount(_)
DocCount(S) == IF S = {} THEN 0
               ELSE LET f == CHOOSE x \in S : TRUE
                    IN  Len(fs[f].data) + DocCount(S \ {f})

\* C17: index_path on a path that does not exist, and on a file no loader is
\* registered for, returns (0, 0) without raising and leaves the store as it
\* was; in a directory the files without a loader give no document, and the
\* files with a loader are loaded and indexed all the same.
C17_NotFoundUnsupported ==
    \A i \in 1..Len(hist) :
        hist[i].op = "index" =>
            /\ ~hist[i].raised
            /\ ~hist[i].existed =>
                 hist[i].ret = <<0, 0>> /\ hist[i].after = hist[i].before
            /\ (hist[i].path \in Files
                    /\ PathSuffix(hist[i].path) \notin DOMAIN SUPPORTED_LOADERS) =>
                 hist[i].ret = <<0, 0>> /\ hist[i].after = hist[i].before
            /\ \A k \in 1..Len(hist[i].docs) :
                 hist[i].docs[k].metadata.file_type \in DOMAIN SUPPORTED_LOADERS
            /\ (IsDir(hist[i].path) /\ hist[i].el = edits) =>
                 /\ hist[i].ret[1] = DocCount(LoadedFiles(fs, hist[i].path))
                 /\ \A f \in LoadedFiles(fs, hist[i].path) :
                      (\E k \in 1..Len(fs[f].data) : fs[f].data[k] # "e") =>
                          \E r \in hist[i].after : SourceOf(r) = f

C17_Witness ==
    /\ Len(hist) = 2
    /\ hist[1].op = "index" /\ hist[1].path = FN /\ hist[1].existed
    /\ hist[1].ret = <<0, 0>>
    /\ hist[2].op = "index" /\ hist[2].path = DirA /\ hist[2].el = edits
    /\ fs[FN].exists
    /\ hist[2].ret[2] > 0
    /\ \E r \in hist[2].after : SourceOf(r) = FX

\* C18: list_sources returns the mapping whose keys are exactly the normalized
\* sources of the stored records and whose values are the numbers of records
\* of each, and changes no record; with the records of one file f only, N of
\* them, it returns {f: N}.
C18_ListExact ==
    \A i \in 1..Len(hist) :
        (hist[i].op = "list" /\ ~hist[i].raised) =>
            LET db == hist[i].before
            IN  /\ hist[i].after = db
                /\ DOMAIN hist[i].ret =
                      {normalize_source_path(SourceOf(r)) : r \in {x \in db : SourceOf(x) # <<>>}}
                /\ \A n \in DOMAIN hist[i].ret :
                      hist[i].ret[n] =
                        Cardinality({r \in db : SourceOf(r) # <<>>
                                                 /\ normalize_source_path(SourceOf(r)) = n})
                /\ \A f \in Files :
                      (db # {} /\ \A r \in db : SourceOf(r) = f) =>
                          (DOMAIN hist[i].ret = {f} /\ hist[i].ret[f] = Cardinality(db))

\* index_path on the file x.pdf alone, then list_sources: {x.pdf: 3}
C18_Witness ==
    /\ Len(hist) = 2
    /\ hist[1].op = "index" /\ hist[1].path = FX /\ hist[1].before = {}
    /\ hist[1].ret = <<2, 3>>
    /\ hist[2].op = "list"
    /\ DOMAIN hist[2].ret = {FX}
    /\ hist[2].ret[FX] = 3
    /\ store = hist[2].after

\* the batches one after the other
RECURSIVE Flat(_)
Flat(batches) == IF batches = <<>> THEN <<>> ELSE Head(batches) \o Flat(Tail(batches))

\* what add_to_chroma does with batches of the given size to the store db and
\* the new chunks: each new chunk is in exactly one batch, no batch is longer
\* than size, and the store gets the new records and keeps the others
BatchedOnce(db, new_chunks, size) ==
    LET run == AddLoop(db, new_chunks, 0, size, <<>>)
    IN  /\ Flat(run.batches) = new_chunks
        /\ \A b \in 1..Len(run.batches) :
              Len(run.batches[b]) >= 1 /\ Len(run.batches[b]) <= size
        /\ run.db = db \cup {Record(new_chunks[k]) : k \in 1..Len(new_chunks)}

\* C19: the add of an index_path call writes no record whose id the store
\* holds and leaves the stored records as they are; each chunk whose id the
\* store did not hold is added, in exactly one batch of at most batch_size
\* chunks; the count returned is the number of records after the add minus
\* the number before it.
C19_AddOnlyNew ==
    [][\A p \in Sessions :
         /\ (pc[p] = "add_write" /\ pc'[p] # "add_write") =>
              LET new_chunks == loc[p].new_chunks
              IN  /\ \A k \in 1..Len(new_chunks) : new_chunks[k].metadata.id \notin DbIds(store)
                  /\ store \subseteq store'
                  /\ \A k \in 1..Len(loc[p].chunks) :
                        loc[p].chunks[k].metadata.id \notin DbIds(store)
                            => Record(loc[p].chunks[k]) \in store'
                  /\ \A size \in (1..MaxBatch) \cup {batch_size} :
                        BatchedOnce(store, new_chunks, size)
                  /\ hist'[Len(hist')].ret[2] = Cardinality(store') - Cardinality(store)
         /\ (pc[p] = "add_scan" /\ pc'[p] = "idle") =>
              /\ store' = store
              /\ hist'[Len(hist')].ret[2] = 0
              /\ \A k \in 1..Len(loc[p].chunks) : loc[p].chunks[k].metadata.id \in DbIds(store)
      ]_vars

\* an add about to write, some of its chunks being in the store already
C19_Witness ==
    \E p \in Sessions :
        /\ pc[p] = "add_write"
        /\ Len(loc[p].new_chunks) >= 2
        /\ Len(loc[p].new_chunks) < Len(loc[p].chunks)

\* C20: every stored record has a source that is a non-empty normalized
\* absolute path, a page (0 when the loader gave none) and the id
\* source:page:index, and no two stored records share an id.
C20_RecordShape ==
    /\ \A r \in store :
         /\ "source" \in DOMAIN r.metadata
         /\ r.metadata.source # <<>>
         /\ Head(r.metadata.source) = "/"
         /\ normalize_source_path(r.metadata.source) = r.metadata.source
         /\ "page" \in DOMAIN r.metadata
         /\ r.metadata.page \in Nat
         /\ PathSuffix(r.metadata.source) # <<".", "p", "d", "f">> => r.metadata.page = 0
         /\ \E index \in 0..(2 * MaxPages) :
              r.id = r.metadata.source \o <<":">> \o ToStr(r.metadata.page)
                        \o <<":">> \o ToStr(index)
         /\ r.metadata.id = r.id
    /\ \A r1, r2 \in store : r1.id = r2.id => r1 = r2

\* records of a later page of the pdf file and of a later row of the csv file
C20_Witness ==
    /\ \E r \in store : r.metadata.source = FX /\ r.metadata.page = 1
    /\ \E r \in store : r.id = FZ \o <<":", "0", ":", "1">>
    /\ \E r \in store : r.metadata.source = FY

\* positions inside a with lock: block
Locked == {"del_scan", "del_delete", "add_scan", "add_write"}

\* C21: a session holds the lock only inside the with block of add_to_chroma
\* or delete_from_chroma_by_source, so the lock is free of it once the
\* function has ended, by return, early return or failure; and every
\* index_path and delete_source call under way ends.
C21_LockReleasedAndCallsEnd ==
    /\ [](\A p \in Sessions : lock = p => pc[p] \in Locked)
    /\ \A p \in Sessions : (pc[p] \in Operating) ~> (pc[p] = "idle")

\* add_to_chroma has failed in its locked section and left the lock free,
\* while the other session waits for the lock
C21_Witness ==
    /\ hist # <<>> /\ Last.op = "index" /\ Last.raised /\ Last.chunks # <<>>
    /\ lock = Free
    /\ \E p \in Sessions : pc[p] \in {"del_lock", "add_lock"}

====
